---- MODULE Spec2Model ----
(***************************************************************************)
(* Model of DatabaseConnection (src/compliant_database_py.py): the scoped  *)
(* connection accessor getConnection and the bootstrap routine             *)
(* initializeDatabase, run against an SQLite file holding the table users. *)
(*                                                                         *)
(* The storage engine is modelled by what the statements of the source do: *)
(* the DDL of _createUserTable runs in autocommit mode, the INSERT OR      *)
(* REPLACE statements of _insertSampleData run inside the transaction the  *)
(* sqlite3 module opens implicitly, commit() makes the working copy        *)
(* durable, and close() without commit rolls it back.  Every engine call   *)
(* can raise sqlite3.Error.  REAL salaries are modelled as integers.       *)
(***************************************************************************)
EXTENDS Integers, Sequences, FiniteSets, TLC

VARIABLES
    pathKind,       \* what DATABASE_PATH points to
    now,            \* CURRENT_TIMESTAMP of the storage engine
    tableExists,    \* committed schema: the table users exists
    users,          \* committed rows of users: id -> row
    log,            \* lines written through logging
    clientResult,   \* outcome of the last plain INSERT of another client
    pc,             \* position of each process inside initializeDatabase
    connection,     \* the local `connection` of getConnection
    exc,            \* exception in flight
    result,         \* value returned by initializeDatabase
    txn,            \* open transaction of the connection (working copy)
    lock,           \* file lock held by the connection
    idx,            \* next element of sampleUsers for executemany
    calls,          \* number of calls started
    stepsDone,      \* engine steps of this call that completed
    failedAt,       \* engine step of this call that raised
    createdInCall,  \* this call found users absent and created it
    pre             \* committed rows when the call started

vars == <<pathKind, now, tableExists, users, log, clientResult, pc, connection,
          exc, result, txn, lock, idx, calls, stepsDone, failedAt,
          createdInCall, pre>>

procVars == <<pc, connection, exc, result, txn, lock, idx, calls, stepsDone,
              failedAt, createdInCall, pre>>

(* ------------------------------ bounds -------------------------------- *)
MaxCalls == 3
ConcCalls == 1
MaxClock == 1
MaxClientId == 6

Procs == {"p1", "p2"}
PathKinds == {"file", "directory", "readonly"}
None == "None"
SqliteError == "sqlite3.Error"

LogConnErr == "Database connection error"
LogInitOk == "Database initialized successfully"
LogInitFail == "Database initialization failed"

(* --------------------------- the seed data ---------------------------- *)
sampleUsers ==
    << [id |-> 1, name |-> "John Doe", email |-> "john@example.com",
        age |-> 30, department |-> "IT", salary |-> 75000],
       [id |-> 2, name |-> "Jane Smith", email |-> "jane@example.com",
        age |-> 28, department |-> "HR", salary |-> 65000],
       [id |-> 3, name |-> "Bob Johnson", email |-> "bob@example.com",
        age |-> 35, department |-> "Finance", salary |-> 80000],
       [id |-> 4, name |-> "Alice Brown", email |-> "alice@example.com",
        age |-> 32, department |-> "IT", salary |-> 78000],
       [id |-> 5, name |-> "Charlie Davis", email |-> "charlie@example.com",
        age |-> 29, department |-> "Marketing", salary |-> 70000] >>

SeedIds == 1..Len(sampleUsers)

(* Rows other clients try to insert. *)
ClientIds == {1} \cup (Len(sampleUsers) + 1 .. MaxClientId)
ClientEmails == {"john@example.com", "eve@example.com"}
ClientAges == {31, 200}
ClientSalaries == {100, -1}

(* ------------------------- the storage engine ------------------------- *)
EmptyTable == << >>
NoTxn == [active |-> FALSE, rows |-> EmptyTable]

\* age INTEGER CHECK(age >= 0 AND age <= 150)
CheckAgeNoUpper(a) == a >= 0
CheckAge(a) == a >= 0 /\ a <= 150

\* salary REAL CHECK(salary >= 0)
CheckSalary(s) == s >= 0

\* rows that collide with (id, email): id INTEGER PRIMARY KEY, email UNIQUE
Conflicts(t, id, email) ==
    {k \in DOMAIN t : k = id \/ t[k].email = email}

StoredRow(r, ts) ==
    [name |-> r.name, email |-> r.email, age |-> r.age,
     department |-> r.department, salary |-> r.salary, created_at |-> ts]

Put(t, gone, id, row) ==
    [k \in (DOMAIN t \ gone) \cup {id} |-> IF k = id THEN row ELSE t[k]]

\* INSERT INTO users ...: conflict resolution ABORT.  The engine tests the
\* CHECK constraints, then the primary key, then the UNIQUE index.
PlainInsert(t, r, ts) ==
    IF ~(CheckAge(r.age) /\ CheckSalary(r.salary))
    THEN [ok |-> FALSE, rows |-> t, err |-> "CHECK constraint failed"]
    ELSE IF r.id \in DOMAIN t
    THEN [ok |-> FALSE, rows |-> t, err |-> "UNIQUE constraint failed: users.id"]
    ELSE IF Conflicts(t, r.id, r.email) # {}
    THEN [ok |-> FALSE, rows |-> t,
          err |-> "UNIQUE constraint failed: users.email"]
    ELSE [ok |-> TRUE, rows |-> Put(t, {}, r.id, StoredRow(r, ts)),
          err |-> "accepted"]

\* INSERT OR IGNORE: a colliding row is skipped
InsertOrIgnore(t, r, ts) ==
    IF ~(CheckAge(r.age) /\ CheckSalary(r.salary))
    THEN [ok |-> FALSE, rows |-> t]
    ELSE IF Conflicts(t, r.id, r.email) # {}
    THEN [ok |-> TRUE, rows |-> t]
    ELSE [ok |-> TRUE, rows |-> Put(t, {}, r.id, StoredRow(r, ts))]

\* INSERT OR REPLACE: every row colliding on the primary key or on the
\* UNIQUE email is deleted before the new row is stored; a CHECK violation
\* still aborts.
InsertOrReplace(t, r, ts) ==
    IF ~(CheckAge(r.age) /\ CheckSalary(r.salary))
    THEN [ok |-> FALSE, rows |-> t]
    ELSE [ok |-> TRUE,
          rows |-> Put(t, Conflicts(t, r.id, r.email), r.id, StoredRow(r, ts))]

\* CREATE TABLE IF NOT EXISTS users (...), run in autocommit mode
CreateTableLost(exists) == exists
CreateTableIfNotExists(exists) == TRUE

\* sqlite3.connect(dbPath, timeout=...) without isolation_level: the module
\* opens a transaction implicitly before the first INSERT
IsolationLevelNone == "AUTOCOMMIT"
IsolationLevel == "DEFERRED"

\* the write lock is free for p
CanWrite(p) == \A q \in Procs \ {p} : lock[q] = "none"

\* connection.close() with an open transaction: the working copy is dropped
CloseCommits(committed, t) == IF t.active THEN t.rows ELSE committed
CloseEffect(committed, t) == committed

\* `if connection:` of the finally clause
ShouldCloseNoError(c, e) == c # None /\ e = None
ShouldClose(c, e) == c # None

\* `raise` of getConnection's except clause
Swallow(e) == None
Reraise(e) == e

\* `except sqlite3.Error` of initializeDatabase
CatchesNothing(e) == FALSE
Catches(e) == e = SqliteError

\* `return False` of the except clause
ExceptResultTrue == "True"
ExceptResult == "False"

(* ------------------------------- Init --------------------------------- *)
Init ==
    /\ pathKind \in PathKinds
    /\ now = 0
    /\ tableExists = FALSE
    /\ users = EmptyTable
    /\ log = << >>
    /\ clientResult = None
    /\ pc = [p \in Procs |-> "idle"]
    /\ connection = [p \in Procs |-> None]
    /\ exc = [p \in Procs |-> None]
    /\ result = [p \in Procs |-> None]
    /\ txn = [p \in Procs |-> NoTxn]
    /\ lock = [p \in Procs |-> "none"]
    /\ idx = [p \in Procs |-> 1]
    /\ calls = [p \in Procs |-> 0]
    /\ stepsDone = [p \in Procs |-> {}]
    /\ failedAt = [p \in Procs |-> None]
    /\ createdInCall = [p \in Procs |-> FALSE]
    /\ pre = [p \in Procs |-> EmptyTable]

(* --------------------------- initializeDatabase ----------------------- *)
\* a step of the engine raised sqlite3.Error: control goes to the except
\* clause of getConnection (body) or straight there (connect)
Raise(p, step) ==
    /\ exc' = [exc EXCEPT ![p] = SqliteError]
    /\ failedAt' = [failedAt EXCEPT ![p] = step]
    /\ pc' = [pc EXCEPT ![p] = "gc_except"]

Call(p, limit) ==
    /\ pc[p] = "idle"
    /\ calls[p] < limit
    /\ calls' = [calls EXCEPT ![p] = @ + 1]
    /\ pc' = [pc EXCEPT ![p] = "connect"]
    /\ connection' = [connection EXCEPT ![p] = None]
    /\ exc' = [exc EXCEPT ![p] = None]
    /\ result' = [result EXCEPT ![p] = None]
    /\ idx' = [idx EXCEPT ![p] = 1]
    /\ stepsDone' = [stepsDone EXCEPT ![p] = {}]
    /\ failedAt' = [failedAt EXCEPT ![p] = None]
    /\ createdInCall' = [createdInCall EXCEPT ![p] = FALSE]
    /\ pre' = [pre EXCEPT ![p] = users]
    /\ UNCHANGED <<pathKind, now, tableExists, users, log, clientResult,
                   txn, lock>>

\* getConnection: connection = sqlite3.connect(...); row_factory; yield
Connect(p) ==
    /\ pc[p] = "connect"
    /\ \/ /\ pathKind # "directory"
          /\ connection' = [connection EXCEPT ![p] = "open"]
          /\ stepsDone' = [stepsDone EXCEPT ![p] = @ \cup {"connect"}]
          /\ pc' = [pc EXCEPT ![p] = "create"]
          /\ UNCHANGED <<exc, failedAt>>
       \/ /\ Raise(p, "connect")
          /\ UNCHANGED <<connection, stepsDone>>
    /\ UNCHANGED <<pathKind, now, tableExists, users, log, clientResult,
                   result, txn, lock, idx, calls, createdInCall, pre>>

\* cursor = connection.cursor(); self._createUserTable(cursor)
CreateUserTable(p) ==
    /\ pc[p] = "create"
    /\ \/ /\ tableExists \/ (pathKind = "file" /\ CanWrite(p))
          /\ tableExists' = CreateTableIfNotExists(tableExists)
          /\ createdInCall' = [createdInCall EXCEPT ![p] = ~tableExists]
          /\ stepsDone' = [stepsDone EXCEPT ![p] = @ \cup {"create"}]
          /\ pc' = [pc EXCEPT ![p] = "seed"]
          /\ UNCHANGED <<exc, failedAt>>
       \/ /\ Raise(p, "create")
          /\ UNCHANGED <<tableExists, createdInCall, stepsDone>>
    /\ UNCHANGED <<pathKind, now, users, log, clientResult, connection,
                   result, txn, lock, idx, calls, pre>>

\* self._insertSampleData(cursor): one statement of cursor.executemany
InsertSampleData(p) ==
    /\ pc[p] = "seed"
    /\ \/ /\ tableExists
          /\ pathKind = "file"
          /\ lock[p] = "reserved" \/ CanWrite(p)
          /\ LET work == IF txn[p].active THEN txn[p].rows ELSE users
                 ins == InsertOrReplace(work, sampleUsers[idx[p]], now)
             IN /\ ins.ok
                /\ IF IsolationLevel = "DEFERRED"
                   THEN /\ txn' = [txn EXCEPT ![p] =
                                     [active |-> TRUE, rows |-> ins.rows]]
                        /\ lock' = [lock EXCEPT ![p] = "reserved"]
                        /\ UNCHANGED users
                   ELSE /\ users' = ins.rows
                        /\ UNCHANGED <<txn, lock>>
          /\ idx' = [idx EXCEPT ![p] = @ + 1]
          /\ IF idx[p] = Len(sampleUsers)
             THEN /\ stepsDone' = [stepsDone EXCEPT ![p] = @ \cup {"seed"}]
                  /\ pc' = [pc EXCEPT ![p] = "commit"]
             ELSE UNCHANGED <<stepsDone, pc>>
          /\ UNCHANGED <<exc, failedAt>>
       \/ /\ Raise(p, "seed")
          /\ UNCHANGED <<users, txn, lock, idx, stepsDone>>
    /\ UNCHANGED <<pathKind, now, tableExists, log, clientResult, connection,
                   result, calls, createdInCall, pre>>

\* connection.commit()
Commit(p) ==
    /\ pc[p] = "commit"
    /\ \/ /\ users' = IF txn[p].active THEN txn[p].rows ELSE users
          /\ txn' = [txn EXCEPT ![p] = NoTxn]
          /\ lock' = [lock EXCEPT ![p] = "none"]
          /\ stepsDone' = [stepsDone EXCEPT ![p] = @ \cup {"commit"}]
          /\ pc' = [pc EXCEPT ![p] = "log_ok"]
          /\ UNCHANGED <<exc, failedAt>>
       \/ /\ Raise(p, "commit")
          /\ UNCHANGED <<users, txn, lock, stepsDone>>
    /\ UNCHANGED <<pathKind, now, tableExists, log, clientResult, connection,
                   result, idx, calls, createdInCall, pre>>

\* logging.info("Database initialized successfully"); return True
LogSuccess(p) ==
    /\ pc[p] = "log_ok"
    /\ log' = Append(log, LogInitOk)
    /\ result' = [result EXCEPT ![p] = "True"]
    /\ pc' = [pc EXCEPT ![p] = "gc_finally"]
    /\ UNCHANGED <<pathKind, now, tableExists, users, clientResult,
                   connection, exc, txn, lock, idx, calls, stepsDone,
                   failedAt, createdInCall, pre>>

\* getConnection: except sqlite3.Error as e: logging.error(...); raise
GcExcept(p) ==
    /\ pc[p] = "gc_except"
    /\ log' = Append(log, LogConnErr)
    /\ exc' = [exc EXCEPT ![p] = Reraise(exc[p])]
    /\ pc' = [pc EXCEPT ![p] = "gc_finally"]
    /\ UNCHANGED <<pathKind, now, tableExists, users, clientResult,
                   connection, result, txn, lock, idx, calls, stepsDone,
                   failedAt, createdInCall, pre>>

\* getConnection: finally: if connection: connection.close()
GcFinally(p) ==
    /\ pc[p] = "gc_finally"
    /\ IF ShouldClose(connection[p], exc[p])
       THEN /\ connection' = [connection EXCEPT ![p] = "closed"]
            /\ users' = CloseEffect(users, txn[p])
            /\ txn' = [txn EXCEPT ![p] = NoTxn]
            /\ lock' = [lock EXCEPT ![p] = "none"]
       ELSE UNCHANGED <<connection, users, txn, lock>>
    /\ IF exc[p] # None
       THEN /\ pc' = [pc EXCEPT ![p] = "init_except"]
            /\ UNCHANGED result
       ELSE /\ pc' = [pc EXCEPT ![p] = "done"]
            /\ UNCHANGED result
    /\ UNCHANGED <<pathKind, now, tableExists, log, clientResult, exc, idx,
                   calls, stepsDone, failedAt, createdInCall, pre>>

\* initializeDatabase: except sqlite3.Error as e: logging.error(...);
\* return False
InitExcept(p) ==
    /\ pc[p] = "init_except"
    /\ IF Catches(exc[p])
       THEN /\ log' = Append(log, LogInitFail)
            /\ exc' = [exc EXCEPT ![p] = None]
            /\ result' = [result EXCEPT ![p] = ExceptResult]
       ELSE UNCHANGED <<log, exc, result>>
    /\ pc' = [pc EXCEPT ![p] = "done"]
    /\ UNCHANGED <<pathKind, now, tableExists, users, clientResult,
                   connection, txn, lock, idx, calls, stepsDone, failedAt,
                   createdInCall, pre>>

\* the caller takes the returned value
Return(p) ==
    /\ pc[p] = "done"
    /\ pc' = [pc EXCEPT ![p] = "idle"]
    /\ UNCHANGED <<pathKind, now, tableExists, users, log, clientResult,
                   connection, exc, result, txn, lock, idx, calls, stepsDone,
                   failedAt, createdInCall, pre>>

\* one step of the code of initializeDatabase after the call started
Step(p) ==
    \/ Connect(p)
    \/ CreateUserTable(p)
    \/ InsertSampleData(p)
    \/ Commit(p)
    \/ LogSuccess(p)
    \/ GcExcept(p)
    \/ GcFinally(p)
    \/ InitExcept(p)

(* ----------------------------- environment ---------------------------- *)
\* another client runs a plain INSERT INTO users between two calls
ClientInsert ==
    /\ \A p \in Procs : pc[p] = "idle"
    /\ \E id \in ClientIds, e \in ClientEmails, a \in ClientAges,
          s \in ClientSalaries :
          LET r == [id |-> id, name |-> "Eve", email |-> e, age |-> a,
                    department |-> "IT", salary |-> s]
              ins == PlainInsert(users, r, now)
          IN IF ~tableExists
             THEN /\ UNCHANGED users
                  /\ clientResult' = "no such table: users"
             ELSE IF pathKind # "file"
             THEN /\ UNCHANGED users
                  /\ clientResult' = "attempt to write a readonly database"
             ELSE /\ users' = ins.rows
                  /\ clientResult' = ins.err
    /\ UNCHANGED <<pathKind, now, tableExists, log>>
    /\ UNCHANGED procVars

\* the engine's clock advances
Tick ==
    /\ now < MaxClock
    /\ now' = now + 1
    /\ UNCHANGED <<pathKind, tableExists, users, log, clientResult>>
    /\ UNCHANGED procVars

(* --------------------------- specifications --------------------------- *)
\* one caller, other clients between its calls
Next ==
    \/ Call("p1", MaxCalls)
    \/ Step("p1")
    \/ Return("p1")
    \/ ClientInsert
    \/ Tick

Spec == Init /\ [][Next]_vars

\* two processes call initializeDatabase on the same fresh file
NextConc ==
    \/ \E p \in Procs : Call(p, ConcCalls) \/ Step(p) \/ Return(p)
    \/ Tick

SpecConc == Init /\ [][NextConc]_vars

(* ============================ properties ============================== *)
Last(s) == s[Len(s)]

Literal(row) ==
    [name |-> row.name, email |-> row.email, age |-> row.age,
     department |-> row.department, salary |-> row.salary]

SeedLiteral(i) ==
    [name |-> sampleUsers[i].name, email |-> sampleUsers[i].email,
     age |-> sampleUsers[i].age, department |-> sampleUsers[i].department,
     salary |-> sampleUsers[i].salary]

\* the committed table holds the five literal seed records under ids 1..5
SeedRowsCommitted ==
    /\ tableExists
    /\ \A i \in SeedIds : i \in DOMAIN users /\ Literal(users[i]) = SeedLiteral(i)

SuccessCount == Cardinality({i \in 1..Len(log) : log[i] = LogInitOk})

AllSteps == {"connect", "create", "seed", "commit"}

\* C1: a finished call of initializeDatabase has let no exception escape and
\* has returned a boolean; if any engine step of the call raised (connect,
\* create table, seeding, commit), the call logged the failure and returned
\* False.
C1_NoErrorEscapes ==
    \A p \in Procs :
        pc[p] = "done" =>
            /\ exc[p] = None
            /\ result[p] \in {"True", "False"}
            /\ failedAt[p] # None =>
                   /\ result[p] = "False"
                   /\ Last(log) = LogInitFail

\* C1 witness: the path is a directory, connect raised, the call returned
\* False
C1_Witness ==
    /\ pathKind = "directory"
    /\ pc["p1"] = "done"
    /\ failedAt["p1"] = "connect"
    /\ result["p1"] = "False"

\* C2: a call that returned True opened the connection, ran create-table and
\* the whole seeding without error, committed, and the committed table holds
\* the literal seed rows under ids 1..5.
C2_TrueOnlyIfAllSteps ==
    \A p \in Procs :
        (pc[p] = "done" /\ result[p] = "True") =>
            /\ stepsDone[p] = AllSteps
            /\ failedAt[p] = None
            /\ idx[p] = Len(sampleUsers) + 1
            /\ connection[p] = "closed"
            /\ SeedRowsCommitted

C2_Witness ==
    /\ pc["p1"] = "done"
    /\ result["p1"] = "True"
    /\ createdInCall["p1"]

C4_NothingDeleted ==
    [][DOMAIN users \subseteq DOMAIN users']_vars

\* C5: outside the scope of getConnection (in the except clause of
\* initializeDatabase, after the return, between calls) the connection the
\* call opened is closed, with no transaction and no lock left behind.
C5_ConnectionReleased ==
    \A p \in Procs :
        pc[p] \in {"init_except", "done", "idle"} =>
            /\ connection[p] # "open"
            /\ ~txn[p].active
            /\ lock[p] = "none"

\* C5 witness: after a call that failed inside the scope, the next call has
\* opened a fresh connection
C5_Witness ==
    /\ calls["p1"] >= 2
    /\ connection["p1"] = "open"
    /\ Len(log) > 0
    /\ Last(log) = LogInitFail

\* C6: when connect raised, getConnection leaves with the error logged and
\* the exception still in flight, no connection was yielded and no step of
\* the caller's body ran.
C6_ConnectFailurePropagates ==
    \A p \in Procs :
        (failedAt[p] = "connect" /\ pc[p] \in {"gc_finally", "init_except"}) =>
            /\ exc[p] = SqliteError
            /\ Last(log) = LogConnErr
            /\ connection[p] = None
            /\ stepsDone[p] = {}

C6_Witness ==
    /\ pc["p1"] = "init_except"
    /\ failedAt["p1"] = "connect"
    /\ exc["p1"] = SqliteError

\* C7: a call that created the absent table and then failed while seeding
\* returns False and the table users exists afterwards.
C7_SchemaPersists ==
    \A p \in Procs :
        (pc[p] = "done" /\ createdInCall[p] /\ failedAt[p] = "seed") =>
            /\ result[p] = "False"
            /\ tableExists

C7_Witness ==
    /\ pc["p1"] = "done"
    /\ createdInCall["p1"]
    /\ failedAt["p1"] = "seed"
    /\ tableExists
    /\ users = EmptyTable

UniqueEmails(t) ==
    \A j, k \in DOMAIN t : t[j].email = t[k].email => j = k

RangesHold(t) ==
    \A k \in DOMAIN t : t[k].age >= 0 /\ t[k].age <= 150 /\ t[k].salary >= 0

ClientRows ==
    [id : ClientIds, name : {"Eve"}, email : ClientEmails, age : ClientAges,
     department : {"IT"}, salary : ClientSalaries]

\* C8: the committed table and every working copy have unique emails, ages
\* in 0..150 and salaries >= 0; a plain insert with age 200, salary -1 or an
\* email already stored is rejected and leaves the table as it is.
C8_ColumnConstraints ==
    /\ UniqueEmails(users) /\ RangesHold(users)
    /\ \A p \in Procs : UniqueEmails(txn[p].rows) /\ RangesHold(txn[p].rows)
    /\ \A r \in ClientRows :
          (\/ r.age = 200
           \/ r.salary = -1
           \/ \E k \in DOMAIN users : users[k].email = r.email) =>
              /\ ~PlainInsert(users, r, now).ok
              /\ PlainInsert(users, r, now).rows = users

\* C8 witness: a sixth row with a seed row's email was refused
C8_Witness ==
    /\ clientResult = "UNIQUE constraint failed: users.email"
    /\ SeedRowsCommitted
    /\ DOMAIN users = SeedIds

\* C9: a call that returned False left the committed rows exactly as they
\* were when it started; during a call the committed rows differ from the
\* rows at its start only once its commit has succeeded.
C9_AllOrNothing ==
    \A p \in Procs :
        /\ (pc[p] = "done" /\ result[p] = "False") => users = pre[p]
        /\ (pc[p] # "idle" /\ users # pre[p]) => "commit" \in stepsDone[p]

\* C9 witness: seeding raised after some rows were written to the working
\* copy, the call returned False
C9_Witness ==
    /\ pc["p1"] = "done"
    /\ result["p1"] = "False"
    /\ failedAt["p1"] = "seed"
    /\ idx["p1"] > 2

\* C10: two concurrent calls: a finished call has returned a boolean with no
\* exception left, a running call can always take its next step, the
\* committed table holds none or all of the seed rows, and once a call has
\* succeeded the table holds exactly the five seed rows.
C10_Concurrent ==
    /\ \A p \in Procs :
          /\ pc[p] = "done" => (exc[p] = None /\ result[p] \in {"True", "False"})
          /\ pc[p] # "idle" => ENABLED (Step(p) \/ Return(p))
    /\ {i \in SeedIds : i \in DOMAIN users} \in {{}, SeedIds}
    /\ SuccessCount >= 1 => (DOMAIN users = SeedIds /\ SeedRowsCommitted)

\* C10 witness: both calls have finished, one lost the race while seeding
C10_Witness ==
    /\ pc["p1"] = "done" /\ result["p1"] = "True"
    /\ pc["p2"] = "done" /\ result["p2"] = "False"
    /\ failedAt["p2"] = "seed"
    /\ calls["p1"] = calls["p2"]
    /\ DOMAIN users = SeedIds

====
